---- MODULE Spec2Model ----
(***************************************************************************)
(* A model of graphql_client_codegen/src/codegen.rs: the type-qualifier    *)
(* decorator (decorate_type), the object-like struct renderer              *)
(* (render_object_like_struct / render_union_enum) and the code generation *)
(* entry point response_for_query with the generators it drives.           *)
(*                                                                         *)
(* A TokenStream is modelled as a sequence of tokens (strings) or, for the *)
(* item-level definitions, as a record holding the parts that quote!       *)
(* splices into the item.  An Option<TokenStream> is a sequence of length  *)
(* zero (None) or one (Some).                                              *)
(***************************************************************************)
EXTENDS Integers, Sequences, FiniteSets, TLC

\* ------------------------------------------------------------------------
\* Bounds of the model
\* ------------------------------------------------------------------------
MaxQualifiers == 5

MaxFields == 2

MaxVariants == 2

MaxVars == 2

MaxSpreads == 2

\* ------------------------------------------------------------------------
\* field_type::GraphqlTypeQualifier
\* ------------------------------------------------------------------------
List == "List"

Required == "Required"

GraphqlTypeQualifier == {List, Required}

\* All sequences over S of length at most n.
SeqsUpTo(S, n) == UNION { [1..k -> S] : k \in 0..n }

\* Base type identifiers handed to decorate_type.
Idents == {"Int", "ID"}

\* ------------------------------------------------------------------------
\* decorate_type (codegen.rs 139-175)
\* ------------------------------------------------------------------------

\* The value standing for the unwinding started by
\* panic!("double required annotation").
PANIC == <<"panic!", "double required annotation">>

\* Mutant: the (true, List) arm forgets to switch back to nullable context.
decorate_step_no_reset(acc, qualifier) ==
    IF acc.panicked THEN acc
    ELSE IF acc.non_null /\ qualifier = List
        THEN [acc EXCEPT !.qualified = <<"Vec">> \o @]
    ELSE IF ~acc.non_null /\ qualifier = List
        THEN [acc EXCEPT !.qualified = <<"Vec", "Option">> \o @]
    ELSE IF acc.non_null /\ qualifier = Required
        THEN [acc EXCEPT !.panicked = TRUE]
    ELSE [acc EXCEPT !.non_null = TRUE]

\* Mutant: a Required in non-null context is accepted instead of panicking.
decorate_step_no_panic(acc, qualifier) ==
    IF acc.panicked THEN acc
    ELSE IF acc.non_null /\ qualifier = List
        THEN [acc EXCEPT !.qualified = <<"Vec">> \o @, !.non_null = FALSE]
    ELSE IF ~acc.non_null /\ qualifier = List
        THEN [acc EXCEPT !.qualified = <<"Vec", "Option">> \o @]
    ELSE [acc EXCEPT !.non_null = TRUE]

\* Mutant: the (false, List) arm wraps the list elements in Option twice.
decorate_step_double_option(acc, qualifier) ==
    IF acc.panicked THEN acc
    ELSE IF acc.non_null /\ qualifier = List
        THEN [acc EXCEPT !.qualified = <<"Vec">> \o @, !.non_null = FALSE]
    ELSE IF ~acc.non_null /\ qualifier = List
        THEN [acc EXCEPT !.qualified = <<"Vec", "Option", "Option">> \o @]
    ELSE IF acc.non_null /\ qualifier = Required
        THEN [acc EXCEPT !.panicked = TRUE]
    ELSE [acc EXCEPT !.non_null = TRUE]

\* One iteration of the loop body: the match on (non_null, qualifier).
\* acc holds the loop's locals; once the panic arm was taken no later
\* iteration runs.
decorate_step(acc, qualifier) ==
    IF acc.panicked THEN acc
    ELSE IF acc.non_null /\ qualifier = List
        THEN [acc EXCEPT !.qualified = <<"Vec">> \o @, !.non_null = FALSE]
    ELSE IF ~acc.non_null /\ qualifier = List
        THEN [acc EXCEPT !.qualified = <<"Vec", "Option">> \o @]
    ELSE IF acc.non_null /\ qualifier = Required
        THEN [acc EXCEPT !.panicked = TRUE]
    ELSE [acc EXCEPT !.non_null = TRUE]

\* for qualifier in qualifiers.iter().rev(): position i runs from
\* Len(qualifiers) down to 1.
RECURSIVE decorate_loop(_, _, _)
decorate_loop(acc, qualifiers, i) ==
    IF i = 0 THEN acc
    ELSE decorate_loop(decorate_step(acc, qualifiers[i]), qualifiers, i - 1)

\* The same loop walking the slice front to back (used by a mutant).
RECURSIVE decorate_loop_forward(_, _, _)
decorate_loop_forward(acc, qualifiers, i) ==
    IF i > Len(qualifiers) THEN acc
    ELSE decorate_loop_forward(decorate_step(acc, qualifiers[i]), qualifiers, i + 1)

\* Mutant: the qualifiers are walked without .rev().
decorate_type_forward(ident, qualifiers) ==
    LET end == decorate_loop_forward(
                   [qualified |-> <<ident>>, non_null |-> FALSE, panicked |-> FALSE],
                   qualifiers, 1)
    IN  IF end.panicked THEN PANIC
        ELSE IF ~end.non_null THEN <<"Option">> \o end.qualified
        ELSE end.qualified

decorate_type(ident, qualifiers) ==
    LET end == decorate_loop(
                   [qualified |-> <<ident>>, non_null |-> FALSE, panicked |-> FALSE],
                   qualifiers, Len(qualifiers))
    IN  IF end.panicked THEN PANIC
        ELSE IF ~end.non_null THEN <<"Option">> \o end.qualified
        ELSE end.qualified

\* ------------------------------------------------------------------------
\* render_union_enum (codegen.rs 250-264) and
\* render_object_like_struct (codegen.rs 215-248)
\* ------------------------------------------------------------------------
render_union_enum(response_derives, enum_name, variants) ==
    [ derives    |-> response_derives,
      tag        |-> "__typename",
      enum_ident |-> enum_name,
      variants   |-> variants ]

\* Mutant: the auxiliary enum is only rendered for two or more variants.
render_object_like_struct_gt1(response_derives, struct_name, fields, variants) ==
    LET has_on        == Len(variants) > 1
        enum_name_str == struct_name \o "On"
    IN  [ derives      |-> response_derives,
          struct_ident |-> struct_name,
          fields       |-> fields,
          on_field     |-> IF has_on
                             THEN << [ attr  |-> "serde(flatten)",
                                       ident |-> "on",
                                       type  |-> enum_name_str ] >>
                             ELSE << >>,
          on_enum      |-> IF has_on
                             THEN << render_union_enum(response_derives,
                                                       enum_name_str, variants) >>
                             ELSE << >> ]

\* on_field and on_enum are Option<TokenStream>: << >> is None.
render_object_like_struct(response_derives, struct_name, fields, variants) ==
    LET has_on        == Len(variants) > 0
        enum_name_str == struct_name \o "On"
    IN  [ derives      |-> response_derives,
          struct_ident |-> struct_name,
          fields       |-> fields,
          on_field     |-> IF has_on
                             THEN << [ attr  |-> "serde(flatten)",
                                       ident |-> "on",
                                       type  |-> enum_name_str ] >>
                             ELSE << >>,
          on_enum      |-> IF has_on
                             THEN << render_union_enum(response_derives,
                                                       enum_name_str, variants) >>
                             ELSE << >> ]

\* Inputs handed to render_object_like_struct.
StructNames == {"Hero", "Node"}

FieldTokens == {"pub id : ID", "pub name : Option<String>"}

VariantTokens == {"User(NodeOnUser)", "Droid"}

DeriveLists == { <<"Deserialize">>, <<"Deserialize", "Debug">> }

\* ------------------------------------------------------------------------
\* The schema and the query's fragment table read by response_for_query
\* ------------------------------------------------------------------------
CustomScalars == {"DateTime"}

EnumTypes == {"Order"}

InputObjectTypes == {"Filter", "Page"}

EnumValues(t) == IF t = "Order" THEN <<"ASC", "DESC">> ELSE << >>

InputFields(t) ==
    IF t = "Filter" THEN
        << [name |-> "ids",   type_name |-> "ID",       type_qualifiers |-> <<List, Required>>],
           [name |-> "since", type_name |-> "DateTime", type_qualifiers |-> << >>],
           [name |-> "page",  type_name |-> "Page",     type_qualifiers |-> <<Required>>] >>
    ELSE IF t = "Page" THEN
        << [name |-> "first", type_name |-> "Int",   type_qualifiers |-> <<Required>>],
           [name |-> "order", type_name |-> "Order", type_qualifiers |-> << >>],
           [name |-> "next",  type_name |-> "Page",  type_qualifiers |-> << >>] >>
    ELSE << >>

FragmentTable ==
    << [name |-> "HeroFields", fields |-> <<"pub name : Option<String>">>,
        variants |-> << >>],
       [name |-> "NodeFields", fields |-> <<"pub id : ID">>,
        variants |-> <<"User(NodeFieldsOnUser)", "Droid">>] >>

FragmentIds == 1..Len(FragmentTable)

\* Names of the declared variables, by declaration position.
VariableNames == <<"id", "userId", "type", "first">>

VarTypeNames == {"Int", "DateTime", "Filter"}

\* Qualifier lists of the declared variables: T, T!, T!!, [T], [T!], [T]!
\* and [T!]!.
VarQualifierLists ==
    { << >>, <<Required>>, <<Required, Required>>, <<List>>,
      <<List, Required>>, <<Required, List>>, <<Required, List, Required>> }

Options == [ response_derives |-> <<"Deserialize">>,
             variable_derives |-> <<"Serialize">> ]

\* ------------------------------------------------------------------------
\* OperationRef::all_used_types: the UsedTypes catalog (section 4.2)
\* ------------------------------------------------------------------------
Contains(s, x) == \E i \in 1..Len(s) : s[i] = x

AddOnce(s, x) == IF Contains(s, x) THEN s ELSE Append(s, x)

RECURSIVE collect_input_type(_, _)
RECURSIVE collect_input_fields(_, _, _)
collect_input_type(used, t) ==
    IF t \in CustomScalars THEN [used EXCEPT !.scalars = AddOnce(@, t)]
    ELSE IF t \in EnumTypes THEN [used EXCEPT !.enums = AddOnce(@, t)]
    ELSE IF t \in InputObjectTypes THEN
        IF Contains(used.inputs, t) THEN used
        ELSE collect_input_fields([used EXCEPT !.inputs = Append(@, t)],
                                  InputFields(t), 1)
    ELSE used

collect_input_fields(used, fields, i) ==
    IF i > Len(fields) THEN used
    ELSE collect_input_fields(collect_input_type(used, fields[i].type_name),
                              fields, i + 1)

RECURSIVE collect_variables(_, _, _)
collect_variables(used, variables, i) ==
    IF i > Len(variables) THEN used
    ELSE collect_variables(collect_input_type(used, variables[i].type_name),
                           variables, i + 1)

RECURSIVE collect_spreads(_, _, _)
collect_spreads(used, spreads, i) ==
    IF i > Len(spreads) THEN used
    ELSE collect_spreads([used EXCEPT !.fragments = AddOnce(@, spreads[i])],
                         spreads, i + 1)

all_used_types(operation) ==
    collect_variables(
        collect_spreads([scalars |-> << >>, enums |-> << >>,
                         inputs |-> << >>, fragments |-> << >>],
                        operation.spreads, 1),
        operation.variables, 1)

\* ------------------------------------------------------------------------
\* generate_scalar_definitions (codegen.rs 117-125)
\* ------------------------------------------------------------------------
generate_scalar_definitions(operation, used) ==
    [ i \in 1..Len(used.scalars) |->
        [ alias |-> used.scalars[i], target |-> "super::" \o used.scalars[i] ] ]

\* enums::generate_enum_definitions (section 4.3)
generate_enum_definitions(operation, used, options) ==
    [ i \in 1..Len(used.enums) |->
        [ enum_ident |-> used.enums[i],
          variants   |-> EnumValues(used.enums[i]) \o <<"Other(String)">> ] ]

\* ------------------------------------------------------------------------
\* generate_input_object_definitions (codegen.rs 177-189)
\* ------------------------------------------------------------------------
\* quote!(pub struct #struct_name;): a unit struct, no fields.
generate_input_object_definitions(operation, used, options) ==
    [ i \in 1..Len(used.inputs) |->
        [ struct_name |-> used.inputs[i], unit |-> TRUE, fields |-> << >> ] ]

\* ------------------------------------------------------------------------
\* generate_fragment_definitions (codegen.rs 191-212)
\* ------------------------------------------------------------------------
\* selection::render_fragment (section 4.5): one named shape built from the
\* fragment's own selection set.
render_fragment(fragment, response_derives, options) ==
    render_object_like_struct(response_derives, fragment.name,
                              fragment.fields, fragment.variants)

\* Mutant: one definition is rendered per spread site of the operation.
generate_fragment_definitions_per_spread(operation, used, response_derives, options) ==
    [ i \in 1..Len(operation.spreads) |->
        render_fragment(FragmentTable[operation.spreads[i]],
                        response_derives, options) ]

generate_fragment_definitions(operation, used, response_derives, options) ==
    [ i \in 1..Len(used.fragments) |->
        render_fragment(FragmentTable[used.fragments[i]],
                        response_derives, options) ]

\* ------------------------------------------------------------------------
\* generate_variables_struct (codegen.rs 64-103) and its helpers
\* ------------------------------------------------------------------------
\* heck::SnakeCase on the variable names of the model.
to_snake_case(name) == IF name = "userId" THEN "user_id" ELSE name

\* shared::keyword_replace: a Rust keyword gets a trailing underscore.
keyword_replace(name) == IF name = "type" THEN "type_" ELSE name

\* shared::field_rename_annotation: Some(#[serde(rename = ...)]) when the
\* names differ.
field_rename_annotation(graphql_name, rust_name) ==
    IF graphql_name # rust_name
        THEN << "serde(rename = " \o graphql_name \o ")" >>
        ELSE << >>

\* Mutant: the qualifiers of the variable are dropped.
render_variable_field_type_bare(variable) ==
    decorate_type(variable.type_name, << >>)

render_variable_field_type(variable) ==
    decorate_type(variable.type_name, variable.type_qualifiers)

generate_variable_struct_field(variable) ==
    LET snake_case_name == to_snake_case(variable.name)
    IN  [ annotation |-> field_rename_annotation(variable.name, snake_case_name),
          ident      |-> keyword_replace(snake_case_name),
          type       |-> render_variable_field_type(variable) ]

\* The items of the returned TokenStream.
StructItem(derives, ident, unit, fields) ==
    [ kind |-> "struct", derives |-> derives, ident |-> ident,
      unit |-> unit, fields |-> fields, methods |-> << >> ]

ImplItem(ident, methods) ==
    [ kind |-> "impl", derives |-> << >>, ident |-> ident,
      unit |-> FALSE, fields |-> << >>, methods |-> methods ]

\* Mutant: nothing is emitted for an operation without variables.
generate_variables_struct_omit(operation, options) ==
    LET variables == operation.variables
        n == Len(variables)
        variable_fields ==
            [ i \in 1..n |-> generate_variable_struct_field(variables[i]) ]
        variable_defaults ==
            [ i \in 1..n |->
                [ method_name |-> "default_" \o variables[i].name,
                  return_type |-> render_variable_field_type(variables[i]) ] ]
    IN  IF n = 0 THEN [ panicked |-> FALSE, items |-> << >> ]
        ELSE IF \E i \in 1..n : variable_fields[i].type = PANIC
            THEN [ panicked |-> TRUE, items |-> << >> ]
        ELSE [ panicked |-> FALSE,
               items |-> << StructItem(options.variable_derives, "Variables",
                                       FALSE, variable_fields),
                            ImplItem("Variables", variable_defaults) >> ]

\* The lazy maps over operation.variables() run when quote! splices them:
\* the fields first, then the default accessors.  A panic in decorate_type
\* unwinds out of the function.
generate_variables_struct(operation, options) ==
    LET variables == operation.variables
        n == Len(variables)
        variable_fields ==
            [ i \in 1..n |-> generate_variable_struct_field(variables[i]) ]
        variable_defaults ==
            [ i \in 1..n |->
                [ method_name |-> "default_" \o variables[i].name,
                  return_type |-> render_variable_field_type(variables[i]) ] ]
    IN  IF n = 0
            THEN [ panicked |-> FALSE,
                   items |-> << StructItem(options.variable_derives, "Variables",
                                           TRUE, << >>) >> ]
        ELSE IF \/ \E i \in 1..n : variable_fields[i].type = PANIC
                \/ \E i \in 1..n : variable_defaults[i].return_type = PANIC
            THEN [ panicked |-> TRUE, items |-> << >> ]
        ELSE [ panicked |-> FALSE,
               items |-> << StructItem(options.variable_derives, "Variables",
                                       FALSE, variable_fields),
                            ImplItem("Variables", variable_defaults) >> ]

\* selection::render_response_data_fields (section 4.4): the root shape;
\* every spread site refers to the fragment's shape by name.
render_response_data_fields(operation, response_derives, options) ==
    render_object_like_struct(
        response_derives, "ResponseData",
        [ i \in 1..Len(operation.spreads) |->
            "pub f : " \o FragmentTable[operation.spreads[i]].name ],
        << >>)

\* The type aliases at the head of the generated module.
Prelude == <<"Boolean = bool", "Float = f64", "Int = i64", "ID = String">>

\* The operations generation is run on.
VariableLists ==
    UNION { { [ i \in 1..k |-> [ name            |-> VariableNames[i],
                                 type_name       |-> f[i].t,
                                 type_qualifiers |-> f[i].q ] ] :
                f \in [ 1..k -> [ t : VarTypeNames,
                                  q : VarQualifierLists ] ] } :
            k \in 0..MaxVars }

Operations ==
    [ variables : VariableLists, spreads : SeqsUpTo(FragmentIds, MaxSpreads) ]

\* ------------------------------------------------------------------------
\* State
\* ------------------------------------------------------------------------
VARIABLES
    dt_ident,        \* decorate_type: argument ident
    dt_qualifiers,   \* decorate_type: argument qualifiers
    dt_called,       \* decorate_type: has the call been made
    dt_result,       \* decorate_type: returned TokenStream, or PANIC
    ro_args,         \* render_object_like_struct: the four arguments
    ro_called,       \* render_object_like_struct: has the call been made
    ro_result,       \* render_object_like_struct: << >> or <<returned item>>
    operation,       \* response_for_query: the operation generated for
    pc,              \* response_for_query: position in the function body
    used_types,      \* let all_used_types
    scalar_definitions,
    enum_definitions,
    fragment_definitions,
    input_object_definitions,
    variables_struct,
    definitions,     \* let definitions: << >> or <<the root shape>>
    result           \* what the caller of response_for_query observes

dt_vars == <<dt_ident, dt_qualifiers, dt_called, dt_result>>

ro_vars == <<ro_args, ro_called, ro_result>>

rq_vars == <<operation, pc, used_types, scalar_definitions, enum_definitions,
             fragment_definitions, input_object_definitions, variables_struct,
             definitions, result>>

vars == <<dt_ident, dt_qualifiers, dt_called, dt_result,
          ro_args, ro_called, ro_result,
          operation, pc, used_types, scalar_definitions, enum_definitions,
          fragment_definitions, input_object_definitions, variables_struct,
          definitions, result>>

\* ------------------------------------------------------------------------
\* Specification of decorate_type as a pure function
\* ------------------------------------------------------------------------
DtIdle ==
    /\ dt_ident = "Int"
    /\ dt_qualifiers = <<>>
    /\ dt_called = FALSE
    /\ dt_result = <<>>

EmptyUsedTypes ==
    [scalars |-> << >>, enums |-> << >>, inputs |-> << >>, fragments |-> << >>]

\* The locals of response_for_query before its first statement.
RqLocalsUnset ==
    /\ used_types = EmptyUsedTypes
    /\ scalar_definitions = << >>
    /\ enum_definitions = << >>
    /\ fragment_definitions = << >>
    /\ input_object_definitions = << >>
    /\ variables_struct = << >>
    /\ definitions = << >>
    /\ result = [kind |-> "Pending", error |-> "", q |-> << >>]

RqIdle ==
    /\ operation = [variables |-> << >>, spreads |-> << >>]
    /\ pc = "idle"
    /\ RqLocalsUnset

RoIdle ==
    /\ ro_args = [ response_derives |-> <<"Deserialize">>, struct_name |-> "Hero",
                   fields |-> << >>, variants |-> << >> ]
    /\ ro_called = FALSE
    /\ ro_result = << >>

InitDecorate ==
    /\ RoIdle
    /\ RqIdle
    /\ dt_ident \in Idents
    /\ dt_qualifiers \in SeqsUpTo(GraphqlTypeQualifier, MaxQualifiers)
    /\ dt_called = FALSE
    /\ dt_result = <<>>

CallDecorateType ==
    /\ ~dt_called
    /\ dt_called' = TRUE
    /\ dt_result' = decorate_type(dt_ident, dt_qualifiers)
    /\ UNCHANGED <<dt_ident, dt_qualifiers>>
    /\ UNCHANGED ro_vars
    /\ UNCHANGED rq_vars

NextDecorate == CallDecorateType

SpecDecorate == InitDecorate /\ [][NextDecorate]_vars

\* ------------------------------------------------------------------------
\* Claims about decorate_type
\* ------------------------------------------------------------------------
Count(s, x) == Cardinality({ i \in 1..Len(s) : s[i] = x })

HasAdjacentRequired(q) ==
    \E i \in 1..(Len(q) - 1) : q[i] = Required /\ q[i + 1] = Required

\* C1: decorate_type maps [] to Option<T>, [Required] to T, [List] to
\* Option<Vec<Option<T>>> and [Required, List, Required] to Vec<T>.
C1_NullabilityTable ==
    dt_called =>
        /\ (dt_qualifiers = <<>> => dt_result = <<"Option", dt_ident>>)
        /\ (dt_qualifiers = <<Required>> => dt_result = <<dt_ident>>)
        /\ (dt_qualifiers = <<List>>
                => dt_result = <<"Option", "Vec", "Option", dt_ident>>)
        /\ (dt_qualifiers = <<Required, List, Required>>
                => dt_result = <<"Vec", dt_ident>>)

C1_Witness ==
    /\ dt_called
    /\ dt_qualifiers = <<Required, List, Required>>
    /\ dt_result = <<"Vec", dt_ident>>

\* C2 as stated: [Required, List] yields Option<Vec<T>> and
\* [List, Required] yields Vec<Option<T>>.
C2_AsStated ==
    dt_called =>
        /\ (dt_qualifiers = <<Required, List>>
                => dt_result = <<"Option", "Vec", dt_ident>>)
        /\ (dt_qualifiers = <<List, Required>>
                => dt_result = <<"Vec", "Option", dt_ident>>)

\* C2 (amended): the slice [Required, List] yields a required list of
\* optional T, Vec<Option<T>>, and the slice [List, Required] yields an
\* optional list of required T, Option<Vec<T>>.
C2_Amended ==
    dt_called =>
        /\ (dt_qualifiers = <<Required, List>>
                => dt_result = <<"Vec", "Option", dt_ident>>)
        /\ (dt_qualifiers = <<List, Required>>
                => dt_result = <<"Option", "Vec", dt_ident>>)

C2_Witness ==
    /\ dt_called
    /\ dt_qualifiers = <<Required, List>>
    /\ dt_result = <<"Vec", "Option", dt_ident>>

\* C9: decorate_type fails if and only if the qualifier sequence contains
\* two adjacent Required qualifiers; every other sequence returns a type.
C9_FailsIffAdjacentRequired ==
    dt_called =>
        /\ (dt_result = PANIC <=> HasAdjacentRequired(dt_qualifiers))
        /\ (~HasAdjacentRequired(dt_qualifiers)
                => /\ Len(dt_result) >= 1
                   /\ dt_result[Len(dt_result)] = dt_ident)

C9_Witness ==
    /\ dt_called
    /\ dt_qualifiers = <<Required, List, Required, List, Required>>
    /\ dt_result # PANIC

\* C10: a returned descriptor has as many Vec layers as the sequence has
\* List qualifiers, (#List + 1 - #Required) Option layers, and never two
\* Option layers directly inside each other.
C10_LayerCounts ==
    (dt_called /\ dt_result # PANIC) =>
        /\ Count(dt_result, "Vec") = Count(dt_qualifiers, List)
        /\ Count(dt_result, "Option")
              = Count(dt_qualifiers, List) + 1 - Count(dt_qualifiers, Required)
        /\ \A i \in 1..(Len(dt_result) - 1) :
              ~(dt_result[i] = "Option" /\ dt_result[i + 1] = "Option")

C10_Witness ==
    /\ dt_called
    /\ dt_qualifiers = <<List, Required, List>>
    /\ dt_result = <<"Option", "Vec", "Vec", "Option", dt_ident>>

\* ------------------------------------------------------------------------
\* Specification of render_object_like_struct as a pure function
\* ------------------------------------------------------------------------
InitRender ==
    /\ DtIdle
    /\ RqIdle
    /\ ro_args \in [ response_derives : DeriveLists,
                     struct_name      : StructNames,
                     fields           : SeqsUpTo(FieldTokens, MaxFields),
                     variants         : SeqsUpTo(VariantTokens, MaxVariants) ]
    /\ ro_called = FALSE
    /\ ro_result = << >>

CallRenderObjectLikeStruct ==
    /\ ~ro_called
    /\ ro_called' = TRUE
    /\ ro_result' = << render_object_like_struct(ro_args.response_derives,
                                                 ro_args.struct_name,
                                                 ro_args.fields,
                                                 ro_args.variants) >>
    /\ UNCHANGED ro_args
    /\ UNCHANGED dt_vars
    /\ UNCHANGED rq_vars

NextRender == CallRenderObjectLikeStruct

SpecRender == InitRender /\ [][NextRender]_vars

\* C6: the auxiliary tagged union is emitted if and only if variants is
\* non-empty.  With no variants the item is the record with its direct
\* fields and no `on` field; otherwise the record has exactly one extra
\* flattened `on` field and there is exactly one union named
\* <struct_name>On, tagged by __typename, holding the variants in order.
C6_UnionIffVariants ==
    ro_called =>
        LET r == ro_result[1]
            a == ro_args
        IN  /\ r.struct_ident = a.struct_name
            /\ r.fields = a.fields
            /\ (Len(r.on_enum) = 1 <=> Len(a.variants) >= 1)
            /\ (Len(a.variants) = 0 => r.on_field = << >> /\ r.on_enum = << >>)
            /\ (Len(a.variants) >= 1 =>
                   /\ Len(r.on_field) = 1
                   /\ r.on_field[1].ident = "on"
                   /\ r.on_field[1].attr = "serde(flatten)"
                   /\ r.on_field[1].type = a.struct_name \o "On"
                   /\ Len(r.on_enum) = 1
                   /\ r.on_enum[1].enum_ident = a.struct_name \o "On"
                   /\ r.on_enum[1].tag = "__typename"
                   /\ r.on_enum[1].variants = a.variants)

C6_Witness ==
    /\ ro_called
    /\ Len(ro_args.variants) = 1
    /\ Len(ro_result[1].on_enum) = 1
    /\ ro_result[1].on_enum[1].enum_ident = "NodeOn"

\* ------------------------------------------------------------------------
\* response_for_query (codegen.rs 17-62), one action per statement
\* ------------------------------------------------------------------------
Init ==
    /\ DtIdle
    /\ RoIdle
    /\ operation \in Operations
    /\ pc = "all_used_types"
    /\ RqLocalsUnset

Idle == UNCHANGED dt_vars /\ UNCHANGED ro_vars /\ UNCHANGED operation

\* line 21-22
CollectUsedTypes ==
    /\ pc = "all_used_types"
    /\ used_types' = all_used_types(operation)
    /\ pc' = "scalar_definitions"
    /\ UNCHANGED <<scalar_definitions, enum_definitions, fragment_definitions,
                   input_object_definitions, variables_struct, definitions,
                   result>>
    /\ Idle

\* line 24
GenerateScalarDefinitions ==
    /\ pc = "scalar_definitions"
    /\ scalar_definitions' = generate_scalar_definitions(operation, used_types)
    /\ pc' = "enum_definitions"
    /\ UNCHANGED <<used_types, enum_definitions, fragment_definitions,
                   input_object_definitions, variables_struct, definitions,
                   result>>
    /\ Idle

\* line 25
GenerateEnumDefinitions ==
    /\ pc = "enum_definitions"
    /\ enum_definitions' = generate_enum_definitions(operation, used_types, Options)
    /\ pc' = "fragment_definitions"
    /\ UNCHANGED <<used_types, scalar_definitions, fragment_definitions,
                   input_object_definitions, variables_struct, definitions,
                   result>>
    /\ Idle

\* line 26-27
GenerateFragmentDefinitions ==
    /\ pc = "fragment_definitions"
    /\ fragment_definitions' =
           generate_fragment_definitions(operation, used_types,
                                         Options.response_derives, Options)
    /\ pc' = "input_object_definitions"
    /\ UNCHANGED <<used_types, scalar_definitions, enum_definitions,
                   input_object_definitions, variables_struct, definitions,
                   result>>
    /\ Idle

\* line 28-29
GenerateInputObjectDefinitions ==
    /\ pc = "input_object_definitions"
    /\ input_object_definitions' =
           generate_input_object_definitions(operation, used_types, Options)
    /\ pc' = "variables_struct"
    /\ UNCHANGED <<used_types, scalar_definitions, enum_definitions,
                   fragment_definitions, variables_struct, definitions, result>>
    /\ Idle

\* line 30: the call returns, or a panic unwinds through response_for_query
\* and the caller gets no value back.
GenerateVariablesStruct ==
    /\ pc = "variables_struct"
    /\ LET r == generate_variables_struct(operation, Options)
       IN  IF r.panicked
             THEN /\ pc' = "panicked"
                  /\ result' = [kind |-> "Panic",
                                error |-> "double required annotation",
                                q |-> << >>]
                  /\ UNCHANGED variables_struct
             ELSE /\ pc' = "definitions"
                  /\ variables_struct' = r.items
                  /\ UNCHANGED result
    /\ UNCHANGED <<used_types, scalar_definitions, enum_definitions,
                   fragment_definitions, input_object_definitions, definitions>>
    /\ Idle

\* line 32
RenderResponseDataFields ==
    /\ pc = "definitions"
    /\ definitions' = << render_response_data_fields(operation,
                                                     Options.response_derives,
                                                     Options) >>
    /\ pc' = "quote"
    /\ UNCHANGED <<used_types, scalar_definitions, enum_definitions,
                   fragment_definitions, input_object_definitions,
                   variables_struct, result>>
    /\ Idle

\* line 34-61: the definitions are spliced into q and Ok(q) is returned.
ReturnOk ==
    /\ pc = "quote"
    /\ result' = [ kind  |-> "Ok",
                   error |-> "",
                   q     |-> << [ prelude                  |-> Prelude,
                                  scalar_definitions       |-> scalar_definitions,
                                  enum_definitions         |-> enum_definitions,
                                  input_object_definitions |-> input_object_definitions,
                                  variables_struct         |-> variables_struct,
                                  fragment_definitions     |-> fragment_definitions,
                                  definitions              |-> definitions ] >> ]
    /\ pc' = "done"
    /\ UNCHANGED <<used_types, scalar_definitions, enum_definitions,
                   fragment_definitions, input_object_definitions,
                   variables_struct, definitions>>
    /\ Idle

Next ==
    \/ CollectUsedTypes
    \/ GenerateScalarDefinitions
    \/ GenerateEnumDefinitions
    \/ GenerateFragmentDefinitions
    \/ GenerateInputObjectDefinitions
    \/ GenerateVariablesStruct
    \/ RenderResponseDataFields
    \/ ReturnOk

Spec == Init /\ [][Next]_vars

Terminated == pc \in {"done", "panicked"}

\* Positions after the named statement of response_for_query has run.
AfterFragmentDefinitions ==
    pc \in {"input_object_definitions", "variables_struct", "definitions",
            "quote", "done", "panicked"}

AfterInputObjectDefinitions ==
    pc \in {"variables_struct", "definitions", "quote", "done", "panicked"}

AfterVariablesStruct == pc \in {"definitions", "quote", "done"}

\* ------------------------------------------------------------------------
\* Claims about response_for_query and its generators
\* ------------------------------------------------------------------------
HasDoubleRequiredVariable ==
    \E i \in 1..Len(operation.variables) :
        HasAdjacentRequired(operation.variables[i].type_qualifiers)

\* C3: when a declared variable's qualifiers are double-required,
\* response_for_query ends by returning a MalformedQualifiers error to its
\* caller as an Err value (not by panicking), and produces no definitions.
C3_DoubleRequiredReturnsErr ==
    (Terminated /\ HasDoubleRequiredVariable) =>
        /\ result.kind = "Err"
        /\ result.error = "MalformedQualifiers"
        /\ result.q = << >>

\* The items hold exactly one type named Variables, with no fields, and no
\* default-value accessor.
IsEmptyVariables(items) ==
    /\ Cardinality({ i \in 1..Len(items) :
                        items[i].kind = "struct" /\ items[i].ident = "Variables" }) = 1
    /\ \A i \in 1..Len(items) : items[i].fields = << >> /\ items[i].methods = << >>

\* C4: for an operation declaring zero variables generate_variables_struct
\* emits exactly one type named Variables with zero fields and no
\* default-value accessors, and response_for_query returns an output that
\* holds that definition.
C4_EmptyVariablesStruct ==
    Len(operation.variables) = 0 =>
        /\ pc # "panicked"
        /\ (AfterVariablesStruct => IsEmptyVariables(variables_struct))
        /\ (pc = "done" =>
               /\ result.kind = "Ok"
               /\ IsEmptyVariables(result.q[1].variables_struct))

C4_Witness ==
    /\ pc = "done"
    /\ Len(operation.variables) = 0
    /\ result.kind = "Ok"
    /\ Len(result.q[1].variables_struct) = 1
    /\ result.q[1].variables_struct[1].unit

\* The items are the Variables record and its accessors for the declared
\* variables vs, in declaration order.
IsVariablesFor(items, vs) ==
    /\ Len(items) = 2
    /\ items[1].kind = "struct" /\ items[1].ident = "Variables"
    /\ items[2].kind = "impl" /\ items[2].ident = "Variables"
    /\ Len(items[1].fields) = Len(vs)
    /\ Len(items[2].methods) = Len(vs)
    /\ \A i \in 1..Len(vs) :
          /\ items[1].fields[i].ident = keyword_replace(to_snake_case(vs[i].name))
          /\ items[2].methods[i].method_name = "default_" \o vs[i].name
          /\ items[1].fields[i].type
                = decorate_type(vs[i].type_name, vs[i].type_qualifiers)
          /\ items[1].fields[i].type # PANIC
          /\ items[2].methods[i].return_type = items[1].fields[i].type

\* C5: for n >= 1 declared variables the generated Variables record has
\* exactly n fields and n default-value accessors, in declaration order;
\* the i-th field's type is decorate_type of the i-th variable's type name
\* and qualifiers, and the i-th accessor returns the i-th field's type.
C5_VariablesStructFields ==
    Len(operation.variables) >= 1 =>
        /\ (AfterVariablesStruct =>
               IsVariablesFor(variables_struct, operation.variables))
        /\ (pc = "done" =>
               IsVariablesFor(result.q[1].variables_struct, operation.variables))

C5_Witness ==
    /\ pc = "done"
    /\ Len(operation.variables) = 2
    /\ operation.variables[1].type_qualifiers = <<List, Required>>
    /\ operation.variables[2].type_qualifiers = <<Required>>
    /\ result.q[1].variables_struct[1].fields[1].type
          = <<"Option", "Vec", operation.variables[1].type_name>>
    /\ result.q[1].variables_struct[2].methods[2].return_type
          = <<operation.variables[2].type_name>>

\* defs holds one definition per catalog entry, in catalog order, and one
\* definition for a fragment however often the operation spreads it.
OnePerFragment(defs) ==
    /\ Len(defs) = Len(used_types.fragments)
    /\ \A i \in 1..Len(defs) :
          defs[i].struct_ident = FragmentTable[used_types.fragments[i]].name
    /\ \A id \in FragmentIds :
          Cardinality({ i \in 1..Len(defs) :
                           defs[i].struct_ident = FragmentTable[id].name })
            = IF Contains(operation.spreads, id) THEN 1 ELSE 0

\* C7: generate_fragment_definitions produces exactly one definition per
\* fragment id of the UsedTypes catalog, in catalog order, and a fragment
\* spread from two or more sites has exactly one definition in the output
\* of response_for_query.
C7_OneDefinitionPerFragment ==
    /\ (AfterFragmentDefinitions => OnePerFragment(fragment_definitions))
    /\ (pc = "done" => OnePerFragment(result.q[1].fragment_definitions))

C7_Witness ==
    /\ pc = "done"
    /\ operation.spreads = <<2, 2>>
    /\ Len(result.q[1].fragment_definitions) = 1
    /\ result.q[1].fragment_definitions[1].struct_ident = "NodeFields"

\* C8: for each input object type of the catalog,
\* generate_input_object_definitions emits a record named after it with
\* one field per input field, each typed by decorate_type of the field's
\* declared type and qualifiers.
C8_InputObjectFields ==
    AfterInputObjectDefinitions =>
        /\ Len(input_object_definitions) = Len(used_types.inputs)
        /\ \A i \in 1..Len(used_types.inputs) :
              LET d == input_object_definitions[i]
                  f == InputFields(used_types.inputs[i])
              IN  /\ d.struct_name = used_types.inputs[i]
                  /\ Len(d.fields) = Len(f)
                  /\ \A j \in 1..Len(f) :
                        d.fields[j].type
                          = decorate_type(f[j].type_name, f[j].type_qualifiers)

====
